---- MODULE Spec2Model ----
(***************************************************************************)
(* Model of main.py: the upgrade-risk pipeline                             *)
(*   get_api_key -> check_upgradable_packages ->                           *)
(*   (search_for_bugs -> is_safe_to_upgrade) per package -> print.         *)
(*                                                                         *)
(* Texts (the service's response, the lines written to standard output)    *)
(* are sequences of lexical tokens; JSON values are tagged records.        *)
(* json.dumps renders a value to tokens and json.loads parses tokens back  *)
(* or raises.  Whitespace (indent=4) is not represented.                   *)
(***************************************************************************)
EXTENDS Integers, Sequences, FiniteSets, TLC

\* Longest list of lines the update-check command prints.
MaxPkgs == 2

\* Lines the update-check command can print (one per upgradable package).
PackageLines == {"vim", "gcc"}

(***************************************************************************)
(* JSON values as Python holds them after json.loads.                      *)
(*   t = "null" | "bool" | "num" | "str" | "arr" | "obj"                   *)
(*   s     : the scalar's spelling ("true", "42", the string's content)    *)
(*   items : <<key, value>> pairs of a dict, <<"", value>> items of a list *)
(***************************************************************************)
JNull == [t |-> "null", s |-> "null", items |-> <<>>]
JBool(b) == [t |-> "bool", s |-> IF b THEN "true" ELSE "false", items |-> <<>>]
JNum(n) == [t |-> "num", s |-> n, items |-> <<>>]
JStr(s) == [t |-> "str", s |-> s, items |-> <<>>]
JArr(vals) == [t |-> "arr", s |-> "", items |-> [i \in 1..Len(vals) |-> <<"", vals[i]>>]]
JObj(kv) == [t |-> "obj", s |-> "", items |-> kv]

\* Lexical tokens of a text.
Tok(k, v) == [k |-> k, v |-> v]
P(c) == Tok("punct", c)

\* response.text when the service's reply carries no text part: Python None.
NoneText == <<Tok("None", "")>>

\* Exceptions: the Python class and str(e).
Exc(type, msg) == [type |-> type, msg |-> msg]
NoExc == Exc("", "")

HasKey(items, key) == \E i \in 1..Len(items) : items[i][1] = key

KeyIndex(items, key) == CHOOSE i \in 1..Len(items) : items[i][1] = key

\* d[key] = val on a Python dict: a present key keeps its position.
DictSet(items, key, val) ==
    IF HasKey(items, key)
    THEN [items EXCEPT ![KeyIndex(items, key)] = <<key, val>>]
    ELSE Append(items, <<key, val>>)

(***************************************************************************)
(* json.dumps                                                              *)
(***************************************************************************)
RECURSIVE JsonDumps(_)
RECURSIVE DumpItems(_, _, _)

DumpItems(items, i, isObj) ==
    IF i > Len(items) THEN <<>>
    ELSE (IF i > 1 THEN <<P(",")>> ELSE <<>>)
         \o (IF isObj THEN <<Tok("str", items[i][1]), P(":")>> ELSE <<>>)
         \o JsonDumps(items[i][2])
         \o DumpItems(items, i + 1, isObj)

JsonDumps(val) ==
    CASE val.t = "null" -> <<Tok("lit", "null")>>
      [] val.t = "bool" -> <<Tok("lit", val.s)>>
      [] val.t = "num"  -> <<Tok("num", val.s)>>
      [] val.t = "str"  -> <<Tok("str", val.s)>>
      [] val.t = "arr"  -> <<P("[")>> \o DumpItems(val.items, 1, FALSE) \o <<P("]")>>
      [] val.t = "obj"  -> <<P("{")>> \o DumpItems(val.items, 1, TRUE) \o <<P("}")>>

(***************************************************************************)
(* json.loads: a recursive-descent parse of the token text.                *)
(* A parse step returns [ok, val, pos]: pos is the next unread token.      *)
(***************************************************************************)
PFail == [ok |-> FALSE, val |-> JNull, pos |-> 0]
POk(val, pos) == [ok |-> TRUE, val |-> val, pos |-> pos]

IsPunct(toks, p, c) == p <= Len(toks) /\ toks[p] = P(c)

RECURSIVE ParseValue(_, _)
RECURSIVE ParseElements(_, _, _)
RECURSIVE ParseMembers(_, _, _)

\* After "[" or after ",": one value, then "," or "]".
ParseElements(toks, p, acc) ==
    LET r == ParseValue(toks, p) IN
    IF ~r.ok THEN PFail
    ELSE LET acc2 == Append(acc, <<"", r.val>>) IN
         IF IsPunct(toks, r.pos, "]")
         THEN POk([t |-> "arr", s |-> "", items |-> acc2], r.pos + 1)
         ELSE IF IsPunct(toks, r.pos, ",")
         THEN ParseElements(toks, r.pos + 1, acc2)
         ELSE PFail

\* After "{" or after ",": "key" : value, then "," or "}".
ParseMembers(toks, p, acc) ==
    IF ~(p + 1 <= Len(toks) /\ toks[p].k = "str" /\ toks[p + 1] = P(":"))
    THEN PFail
    ELSE LET r == ParseValue(toks, p + 2) IN
         IF ~r.ok THEN PFail
         ELSE LET acc2 == DictSet(acc, toks[p].v, r.val) IN
              IF IsPunct(toks, r.pos, "}")
              THEN POk(JObj(acc2), r.pos + 1)
              ELSE IF IsPunct(toks, r.pos, ",")
              THEN ParseMembers(toks, r.pos + 1, acc2)
              ELSE PFail

ParseValue(toks, p) ==
    IF p > Len(toks) THEN PFail
    ELSE LET tok == toks[p] IN
         CASE tok.k = "str" -> POk(JStr(tok.v), p + 1)
           [] tok.k = "num" -> POk(JNum(tok.v), p + 1)
           [] tok.k = "lit" ->
                IF tok.v \in {"true", "false"} THEN POk(JBool(tok.v = "true"), p + 1)
                ELSE IF tok.v = "null" THEN POk(JNull, p + 1)
                ELSE PFail
           [] tok = P("[") ->
                IF IsPunct(toks, p + 1, "]") THEN POk(JArr(<<>>), p + 2)
                ELSE ParseElements(toks, p + 1, <<>>)
           [] tok = P("{") ->
                IF IsPunct(toks, p + 1, "}") THEN POk(JObj(<<>>), p + 2)
                ELSE ParseMembers(toks, p + 1, <<>>)
           [] OTHER -> PFail

\* json.loads(text): [exc, val].  None is not a str: TypeError.  A text
\* that is not exactly one JSON value: JSONDecodeError.
JsonLoads(text) ==
    IF text = NoneText
    THEN [exc |-> Exc("TypeError", "the JSON object must be str, bytes or bytearray, not NoneType"),
          val |-> JNull]
    ELSE LET r == ParseValue(text, 1) IN
         IF r.ok /\ r.pos = Len(text) + 1
         THEN [exc |-> NoExc, val |-> r.val]
         ELSE [exc |-> Exc("JSONDecodeError", "Expecting value"), val |-> JNull]

\* data[key] with a str key: only a dict can answer; a missing key is a
\* KeyError, any other value a TypeError.
Subscript(data, key) ==
    IF data.t = "obj"
    THEN IF HasKey(data.items, key)
         THEN [exc |-> NoExc, val |-> data.items[KeyIndex(data.items, key)][2]]
         ELSE [exc |-> Exc("KeyError", "'" \o key \o "'"), val |-> JNull]
    ELSE [exc |-> Exc("TypeError", "not subscriptable with a str key"), val |-> JNull]

(***************************************************************************)
(* The environment's inputs.                                               *)
(***************************************************************************)
\* os.environ.get("GOOGLE_API_KEY") after load_dotenv(): None, "" or a key.
EnvValue(isSet, val) == [isSet |-> isSet, val |-> val]
EnvNone == EnvValue(FALSE, "")
Environments == {EnvNone, EnvValue(TRUE, ""), EnvValue(TRUE, "k3y")}

SeqsUpTo(S, n) == UNION {[1..k -> S] : k \in 0..n}

\* How one run of the update-check command can end.
\*   ok       : exit status 0, stdout split into lines
\*   nonzero  : subprocess.CalledProcessError (check=True)
\*   notfound : the command cannot be executed: FileNotFoundError
ScanOutcomes ==
    {[kind |-> "ok", lines |-> l, status |-> "0"] : l \in SeqsUpTo(PackageLines, MaxPkgs)}
    \cup {[kind |-> "nonzero", lines |-> <<>>, status |-> st] : st \in {"1", "2"}}
    \cup {[kind |-> "notfound", lines |-> <<>>, status |-> ""]}

\* Texts the service can answer with.
ValidTrue == <<P("{"), Tok("str", "safe"), P(":"), Tok("lit", "true"), P(","),
               Tok("str", "reason"), P(":"), Tok("str", "X"), P("}")>>
ValidFalse == <<P("{"), Tok("str", "safe"), P(":"), Tok("lit", "false"), P(","),
                Tok("str", "reason"), P(":"), Tok("str", "breaks boot"), P("}")>>
ValidTrueNoIssues == <<P("{"), Tok("str", "safe"), P(":"), Tok("lit", "true"), P(","),
                       Tok("str", "reason"), P(":"), Tok("str", "no issues"), P("}")>>
NonBoolSafe == <<P("{"), Tok("str", "safe"), P(":"), Tok("str", "yes"), P(","),
                 Tok("str", "reason"), P(":"), Tok("str", "X"), P("}")>>
NoReasonKey == <<P("{"), Tok("str", "safe"), P(":"), Tok("lit", "true"), P("}")>>
NoSafeKey == <<P("{"), Tok("str", "reason"), P(":"), Tok("str", "X"), P("}")>>
EmptyObject == <<P("{"), P("}")>>
ArrayText == <<P("["), Tok("lit", "true"), P(","), Tok("str", "X"), P("]")>>
NumberText == <<Tok("num", "42")>>
StringText == <<Tok("str", "safe")>>
NullText == <<Tok("lit", "null")>>
Truncated == <<P("{"), Tok("str", "safe"), P(":"), Tok("lit", "true"), P(",")>>
Prose == <<Tok("text", "The package looks safe to upgrade.")>>
EmptyText == <<>>

ResponseTexts ==
    {ValidTrue, ValidTrueNoIssues, ValidFalse, NonBoolSafe, NoReasonKey, NoSafeKey, EmptyObject,
     ArrayText, NumberText, StringText, NullText, Truncated, Prose, EmptyText,
     NoneText}

\* How one invocation of the assessor can go.
\*   client_error : genai.Client(...) raises
\*   call_error   : generate_content (or reading .text) raises
\*   response     : the service answers with a text
AssessOutcomes ==
    {[kind |-> "response", text |-> tx, detail |-> ""] : tx \in ResponseTexts}
    \cup {[kind |-> "call_error", text |-> <<>>, detail |-> d] :
             d \in {"timed out", "401 UNAUTHENTICATED"}}
    \cup {[kind |-> "client_error", text |-> <<>>, detail |-> "cannot create client"]}

(***************************************************************************)
(* The functions of main.py.                                               *)
(***************************************************************************)
\* `not api_key`: None and "" are both falsy.
NotApiKey_NoneOnly(env) == ~env.isSet

NotApiKey(env) == ~env.isSet \/ env.val = ""

\* get_api_key(): [exc, ret].
get_api_key(env) ==
    IF NotApiKey(env)
    THEN [exc |-> Exc("ValueError",
                      "No GOOGLE_API_KEY environment variable found. Please set it in your .env file."),
          ret |-> ""]
    ELSE [exc |-> NoExc, ret |-> env.val]

\* check_upgradable_packages(): [exc, ret, out]; out is what it prints.
\* Only CalledProcessError is caught.
check_upgradable_packages(o) ==
    CASE o.kind = "ok" -> [exc |-> NoExc, ret |-> o.lines, out |-> <<>>]
      [] o.kind = "nonzero" ->
           [exc |-> NoExc, ret |-> <<>>,
            out |-> <<<<Tok("text", "Error checking for updates: Command '['checkupdates']' returned non-zero exit status "
                                     \o o.status \o ".")>>>>]
      [] o.kind = "notfound" ->
           [exc |-> Exc("FileNotFoundError", "[Errno 2] No such file or directory: 'checkupdates'"),
            ret |-> <<>>, out |-> <<>>]

\* search_for_bugs(package, api_key): [exc, ret].  The client is built
\* outside the try block; the except clause covers the call only.
search_for_bugs(o) ==
    CASE o.kind = "client_error" -> [exc |-> Exc("ValueError", o.detail), ret |-> <<>>]
      [] o.kind = "call_error" ->
           [exc |-> NoExc,
            ret |-> JsonDumps(JObj(<<<<"safe", JBool(FALSE)>>,
                                     <<"reason", JStr("Error during search: " \o o.detail)>>>>))]
      [] o.kind = "response" -> [exc |-> NoExc, ret |-> o.text]

ParseFallback(e) ==
    [exc |-> NoExc,
     ret |-> <<<<"safe", JBool(FALSE)>>, <<"reason", JStr("Error parsing JSON: " \o e.msg)>>>>,
     out |-> <<<<Tok("text", "Error parsing JSON: " \o e.msg)>>>>]

\* The except clause of is_safe_to_upgrade: JSONDecodeError and KeyError.
ParseCatch(e) ==
    IF e.type \in {"JSONDecodeError", "KeyError"}
    THEN ParseFallback(e)
    ELSE [exc |-> e, ret |-> <<>>, out |-> <<>>]

is_safe_to_upgrade_swapped(search_results) ==
    LET d == JsonLoads(search_results) IN
    IF d.exc # NoExc THEN ParseCatch(d.exc)
    ELSE LET sf == Subscript(d.val, "safe")
             rs == Subscript(d.val, "reason") IN
         IF sf.exc # NoExc THEN ParseCatch(sf.exc)
         ELSE IF rs.exc # NoExc THEN ParseCatch(rs.exc)
         ELSE [exc |-> NoExc, ret |-> <<<<"safe", rs.val>>, <<"reason", sf.val>>>>, out |-> <<>>]

\* is_safe_to_upgrade(search_results): [exc, ret, out]; ret is the dict's
\* items, out is what it prints.
is_safe_to_upgrade(search_results) ==
    LET d == JsonLoads(search_results) IN
    IF d.exc # NoExc THEN ParseCatch(d.exc)
    ELSE LET sf == Subscript(d.val, "safe")
             rs == Subscript(d.val, "reason") IN
         IF sf.exc # NoExc THEN ParseCatch(sf.exc)
         ELSE IF rs.exc # NoExc THEN ParseCatch(rs.exc)
         ELSE [exc |-> NoExc, ret |-> <<<<"safe", sf.val>>, <<"reason", rs.val>>>>, out |-> <<>>]

\* {"package": package, **safe_to_upgrade}
ReportRecord(package, safe_to_upgrade) ==
    JObj(<<<<"package", JStr(package)>>>> \o safe_to_upgrade)

NoPackagesReport_Empty == <<>>

\* The else branch: results.append({"message": ...}) on the empty list.
NoPackagesReport == <<JObj(<<<<"message", JStr("No upgradable packages found.")>>>>)>>

\* print(json.dumps(results, indent=4))
ReportLine(res) == JsonDumps(JArr(res))

\* print(json.dumps({"error": str(e)}, indent=4))
ErrorLine(e) == JsonDumps(JObj(<<<<"error", JStr(e.msg)>>>>))

(***************************************************************************)
(* The run of main().                                                      *)
(***************************************************************************)
VARIABLES
    pc,                   \* the statement of main() to execute next
    environ,              \* the value of GOOGLE_API_KEY
    api_key,
    upgradable_packages,
    idx,                  \* packages the for loop has finished
    search_results,
    results,
    stdout,               \* the lines printed, in order
    stderr,
    calls,                \* history: the functions invoked, in order
    scanned,              \* history: how the update-check command ended
    replies               \* history: how each assessor invocation went

vars == <<pc, environ, api_key, upgradable_packages, idx, search_results,
          results, stdout, stderr, calls, scanned, replies>>

Call(fn, i) == [fn |-> fn, i |-> i]

NotScanned == [kind |-> "none", lines |-> <<>>, status |-> ""]

Init ==
    /\ pc = "get_api_key"
    /\ environ \in Environments
    /\ api_key = ""
    /\ upgradable_packages = <<>>
    /\ idx = 0
    /\ search_results = <<>>
    /\ results = <<>>
    /\ stdout = <<>>
    /\ stderr = <<>>
    /\ calls = <<>>
    /\ scanned = NotScanned
    /\ replies = <<>>

\* main's `except Exception as e`: print the error object and return.
MainExcept(e, out) ==
    /\ stdout' = Append(out, ErrorLine(e))
    /\ pc' = "done"

\* api_key = get_api_key()
GetApiKey ==
    /\ pc = "get_api_key"
    /\ calls' = Append(calls, Call("get_api_key", 0))
    /\ LET r == get_api_key(environ) IN
       IF r.exc # NoExc
       THEN /\ MainExcept(r.exc, stdout)
            /\ UNCHANGED api_key
       ELSE /\ api_key' = r.ret
            /\ pc' = "check_upgradable_packages"
            /\ UNCHANGED stdout
    /\ UNCHANGED <<environ, upgradable_packages, idx, search_results, results,
                   stderr, scanned, replies>>

\* upgradable_packages = check_upgradable_packages(); results = [];
\* if upgradable_packages: ... else: ...
CheckUpgradablePackages ==
    /\ pc = "check_upgradable_packages"
    /\ calls' = Append(calls, Call("check_upgradable_packages", 0))
    /\ \E o \in ScanOutcomes :
          /\ scanned' = o
          /\ LET r == check_upgradable_packages(o) IN
             IF r.exc # NoExc
             THEN /\ MainExcept(r.exc, stdout \o r.out)
                  /\ UNCHANGED upgradable_packages
             ELSE /\ upgradable_packages' = r.ret
                  /\ stdout' = stdout \o r.out
                  /\ pc' = IF r.ret # <<>> THEN "search_for_bugs" ELSE "no_packages"
    /\ results' = <<>>
    /\ UNCHANGED <<environ, api_key, idx, search_results, stderr, replies>>

\* search_results = search_for_bugs(package, api_key)
SearchForBugs ==
    /\ pc = "search_for_bugs"
    /\ idx < Len(upgradable_packages)
    /\ calls' = Append(calls, Call("search_for_bugs", idx + 1))
    /\ \E o \in AssessOutcomes :
          /\ replies' = Append(replies, o)
          /\ LET r == search_for_bugs(o) IN
             IF r.exc # NoExc
             THEN /\ MainExcept(r.exc, stdout)
                  /\ UNCHANGED search_results
             ELSE /\ search_results' = r.ret
                  /\ pc' = "is_safe_to_upgrade"
                  /\ UNCHANGED stdout
    /\ UNCHANGED <<environ, api_key, upgradable_packages, idx, results, stderr, scanned>>

\* safe_to_upgrade = is_safe_to_upgrade(search_results);
\* results.append({"package": package, **safe_to_upgrade}); next package.
IsSafeToUpgrade ==
    /\ pc = "is_safe_to_upgrade"
    /\ calls' = Append(calls, Call("is_safe_to_upgrade", idx + 1))
    /\ LET r == is_safe_to_upgrade(search_results) IN
       IF r.exc # NoExc
       THEN /\ MainExcept(r.exc, stdout \o r.out)
            /\ UNCHANGED <<results, idx>>
       ELSE /\ results' = Append(results, ReportRecord(upgradable_packages[idx + 1], r.ret))
            /\ idx' = idx + 1
            /\ stdout' = stdout \o r.out
            /\ pc' = IF idx + 1 < Len(upgradable_packages) THEN "search_for_bugs" ELSE "print"
    /\ UNCHANGED <<environ, api_key, upgradable_packages, search_results, stderr,
                   scanned, replies>>

\* results.append({"message": "No upgradable packages found."})
NoPackages ==
    /\ pc = "no_packages"
    /\ results' = results \o NoPackagesReport
    /\ pc' = "print"
    /\ UNCHANGED <<environ, api_key, upgradable_packages, idx, search_results,
                   stdout, stderr, calls, scanned, replies>>

\* print(json.dumps(results, indent=4))
PrintReport ==
    /\ pc = "print"
    /\ calls' = Append(calls, Call("print", 0))
    /\ stdout' = Append(stdout, ReportLine(results))
    /\ pc' = "done"
    /\ UNCHANGED <<environ, api_key, upgradable_packages, idx, search_results,
                   results, stderr, scanned, replies>>

Next ==
    \/ GetApiKey
    \/ CheckUpgradablePackages
    \/ SearchForBugs
    \/ IsSafeToUpgrade
    \/ NoPackages
    \/ PrintReport

Spec == Init /\ [][Next]_vars

(***************************************************************************)
(* Properties.                                                             *)
(***************************************************************************)
Done == pc = "done"

CredentialAbsent == ~environ.isSet \/ environ.val = ""

IsJson(line) == JsonLoads(line).exc = NoExc

\* The last line printed, parsed.
FinalPayload == JsonLoads(stdout[Len(stdout)]).val

IsErrorObject(val) ==
    val.t = "obj" /\ Len(val.items) = 1 /\ val.items[1][1] = "error"

\* The parse of reply i is over (it returned or it raised).
Parsed(i) == i < Len(replies) \/ pc # "is_safe_to_upgrade"

Invoked(fn) == {j \in 1..Len(calls) : calls[j].fn = fn}

\* C1: in every run standard output carries exactly one JSON payload and
\* nothing else; the diagnostics of the scanner and of the parser are never
\* written to standard output.
C1_StdoutOnlyJson ==
    /\ \A j \in 1..Len(stdout) : IsJson(stdout[j])
    /\ Done => Len(stdout) = 1

\* C2: every package record of the final report has a 'safe' field and it
\* is a boolean, whatever the assessor answered.
C2_SafeIsBoolean ==
    (Done /\ FinalPayload.t = "arr") =>
        \A j \in 1..Len(FinalPayload.items) :
            LET rec == FinalPayload.items[j][2] IN
            (rec.t = "obj" /\ HasKey(rec.items, "package")) =>
                /\ HasKey(rec.items, "safe")
                /\ Subscript(rec, "safe").val.t = "bool"

\* A response that is not valid JSON or lacks 'safe' or 'reason'.
ParseFailure(text) ==
    LET d == JsonLoads(text) IN
    \/ d.exc # NoExc
    \/ d.val.t # "obj"
    \/ ~HasKey(d.val.items, "safe")
    \/ ~HasKey(d.val.items, "reason")

\* C3: a response parse failure is non-fatal and fail-closed: once such a
\* response has been parsed the package has a record, with safe == false
\* and a non-empty string reason; the parse never ends the run.
C3_ParseFailureFailClosed ==
    \A i \in 1..Len(replies) :
        (replies[i].kind = "response" /\ ParseFailure(replies[i].text) /\ Parsed(i)) =>
            /\ i <= Len(results)
            /\ Subscript(results[i], "safe").val = JBool(FALSE)
            /\ Subscript(results[i], "reason").val.t = "str"
            /\ Subscript(results[i], "reason").val.s # ""

\* C4: the assessor never raises: every failure of the client, the call or
\* the service is returned as the synthetic JSON string, so the package's
\* record is {package, safe: false, reason: "Error during search: ..."}
\* and the loop goes on.
C4_AssessorNeverRaises ==
    \A i \in 1..Len(replies) :
        replies[i].kind \in {"call_error", "client_error"} =>
            /\ (i = Len(replies) /\ ~Done) =>
                   IsJson(search_results) /\ ~ParseFailure(search_results)
            /\ Parsed(i) =>
                   /\ i <= Len(results)
                   /\ results[i] =
                        JObj(<<<<"package", JStr(upgradable_packages[i])>>,
                               <<"safe", JBool(FALSE)>>,
                               <<"reason", JStr("Error during search: " \o replies[i].detail)>>>>)

\* The line printed for [{"message": "No upgradable packages found."}].
NothingToUpgradeLine ==
    <<P("["), P("{"), Tok("str", "message"), P(":"),
      Tok("str", "No upgradable packages found."), P("}"), P("]")>>

\* C5: a scanner tool failure (non-zero exit, or the command cannot be
\* run) is non-fatal: the scanner returns the empty list and the run prints
\* the report of 'nothing to upgrade', never the error object.
C5_ScanFailureNonFatal ==
    scanned.kind \in {"nonzero", "notfound"} =>
        /\ upgradable_packages = <<>>
        /\ replies = <<>>
        /\ Done => stdout[Len(stdout)] = NothingToUpgradeLine

\* C6: with the credential absent or empty the run prints exactly one JSON
\* object with an 'error' key, neither the scanner nor the assessor is
\* invoked, and no report array is printed.
C6_NoCredentialFatal ==
    CredentialAbsent =>
        /\ Invoked("check_upgradable_packages") = {}
        /\ Invoked("search_for_bugs") = {}
        /\ scanned = NotScanned
        /\ replies = <<>>
        /\ \A j \in 1..Len(stdout) :
              IsJson(stdout[j]) /\ IsErrorObject(JsonLoads(stdout[j]).val)
        /\ Done => Len(stdout) = 1

C6_Witness ==
    /\ Done
    /\ environ = EnvValue(TRUE, "")
    /\ Len(stdout) = 1
    /\ IsErrorObject(FinalPayload)

\* C7: whenever the scanned list is non-empty, the printed report has as
\* many records as scanned packages and record i names package i.
C7_OneRecordPerPackage ==
    (Done /\ scanned.kind = "ok" /\ scanned.lines # <<>>) =>
        /\ FinalPayload.t = "arr"
        /\ Len(FinalPayload.items) = Len(scanned.lines)
        /\ \A i \in 1..Len(FinalPayload.items) :
              Subscript(FinalPayload.items[i][2], "package").val = JStr(scanned.lines[i])

\* The response {"safe": true, "reason": x}.
SafeResponse(x) ==
    <<P("{"), Tok("str", "safe"), P(":"), Tok("lit", "true"), P(","),
      Tok("str", "reason"), P(":"), Tok("str", x), P("}")>>

Reasons == {"X", "no issues"}

SafeRecord(package, x) ==
    JObj(<<<<"package", JStr(package)>>, <<"safe", JBool(TRUE)>>, <<"reason", JStr(x)>>>>)

\* C8: a package whose response is exactly {"safe": true, "reason": x}
\* gets the record {"package": name, "safe": true, "reason": x}, in the
\* results and in the printed report.
C8_SafeResponsePassedThrough ==
    \A i \in 1..Len(replies) : \A x \in Reasons :
        (replies[i].kind = "response" /\ replies[i].text = SafeResponse(x) /\ Parsed(i)) =>
            /\ i <= Len(results)
            /\ results[i] = SafeRecord(upgradable_packages[i], x)
            /\ (Done /\ FinalPayload.t = "arr") =>
                   FinalPayload.items[i][2] = SafeRecord(upgradable_packages[i], x)

C8_Witness ==
    /\ Done
    /\ Len(replies) = 2
    /\ replies[2].text = SafeResponse("no issues")
    /\ FinalPayload.t = "arr"
    /\ FinalPayload.items[2][2] = SafeRecord(upgradable_packages[2], "no issues")

\* The scanner returned, and returned the empty list.
ScannedEmpty ==
    \/ scanned.kind = "ok" /\ scanned.lines = <<>>
    \/ scanned.kind = "nonzero"

\* C9: when the scanner returns the empty list the printed report is
\* exactly [{"message": "No upgradable packages found."}] and the assessor
\* is never invoked.
C9_EmptyListPlaceholder ==
    ScannedEmpty =>
        /\ Invoked("search_for_bugs") = {}
        /\ replies = <<>>
        /\ Done => /\ stdout[Len(stdout)] = NothingToUpgradeLine
                   /\ \A j \in 1..(Len(stdout) - 1) : ~IsJson(stdout[j])

C9_Witness ==
    /\ Done
    /\ scanned.kind = "ok"
    /\ scanned.lines = <<>>
    /\ stdout = <<NothingToUpgradeLine>>

\* C10: in every run with a credential the loader and the scanner are
\* invoked once each, in that order, before any assessment; the assessor is
\* invoked exactly once per scanned package, in scanner order; the parse of
\* package i precedes the assessor call of package i+1; the report is
\* printed only after the last package has been parsed.
C10_PipelineOrder ==
    ~CredentialAbsent =>
        /\ \A j \in 1..Len(calls) :
              /\ calls[j].fn = "get_api_key" => j = 1
              /\ calls[j].fn = "check_upgradable_packages" => j = 2
              /\ calls[j].fn = "search_for_bugs" =>
                    /\ j > 2
                    /\ calls[j].i = Cardinality({k \in Invoked("search_for_bugs") : k < j}) + 1
                    /\ calls[j].i > 1 => calls[j - 1] = Call("is_safe_to_upgrade", calls[j].i - 1)
              /\ calls[j].fn = "print" =>
                    /\ j = Len(calls)
                    /\ Cardinality(Invoked("is_safe_to_upgrade")) = Len(upgradable_packages)
        /\ Done =>
              /\ Cardinality(Invoked("get_api_key")) = 1
              /\ Cardinality(Invoked("check_upgradable_packages")) = 1
              /\ Cardinality(Invoked("search_for_bugs")) = Len(upgradable_packages)

====
